---------------------------- MODULE Spec2Model ----------------------------
(***************************************************************************)
(* A model of scripts/generate_diagram.py: one run of main(), from the      *)
(* parsed --focus argument and the spreadsheet on disk to the DOT document  *)
(* and the files written.                                                   *)
(*                                                                          *)
(* Python str values are sequences of one-character strings, so that        *)
(* lower(), strip(), "in", isdigit(), replace() and string ordering are     *)
(* computed character by character.  None is the empty tuple and a present  *)
(* value v is the one-element tuple <<v>>.                                  *)
(***************************************************************************)
EXTENDS Integers, Sequences, FiniteSets, TLC

\* Most rows of a generated table.
MaxRows == 2
\* Longest generated direction text, in characters.
MaxLen == 3
\* Most tokens concatenated into a generated interface-type text.
MaxTokens == 2

None == <<>>
Some(v) == <<v>>

(***************************************************************************)
(* Characters.  Chars lists the modelled characters in code-point order;    *)
(* Python compares and sorts str values by code point.                      *)
(***************************************************************************)
Chars ==
  <<" ", "+", "-", ".", "/", "0", "1", "2", "3", "4", "5", "6", "7",
    "8", "9", ":", "A", "B", "C", "D", "E", "F", "G", "H", "I", "J",
    "K", "L", "M", "N", "O", "P", "Q", "R", "S", "T", "U", "V", "W",
    "X", "Y", "Z", "_", "a", "b", "c", "d", "e", "f", "g", "h", "i",
    "j", "k", "l", "m", "n", "o", "p", "q", "r", "s", "t", "u", "v",
    "w", "x", "y", "z">>

CharSet == {Chars[i] : i \in 1..Len(Chars)}

Ord == [c \in CharSet |-> CHOOSE i \in 1..Len(Chars) : Chars[i] = c]

Upper == {Chars[i] : i \in Ord["A"]..Ord["Z"]}

\* str.isspace / str.isdigit on one character
IsSpace(c) == c = " "

IsDigit(c) == Ord[c] \in Ord["0"]..Ord["9"]

DigitVal(c) == Ord[c] - Ord["0"]

\* str.lower()
LowerChar(c) == IF c \in Upper THEN Chars[Ord[c] - Ord["A"] + Ord["a"]] ELSE c

Lower(s) == [i \in 1..Len(s) |-> LowerChar(s[i])]

SetMin(S) == CHOOSE x \in S : \A y \in S : x <= y

SetMax(S) == CHOOSE x \in S : \A y \in S : y <= x

\* str.strip()
Strip(s) ==
  LET keep == {i \in 1..Len(s) : ~IsSpace(s[i])}
  IN  IF keep = {} THEN <<>> ELSE SubSeq(s, SetMin(keep), SetMax(keep))

\* sub in s
Contains(sub, s) ==
  \E i \in 0..(Len(s) - Len(sub)) : SubSeq(s, i + 1, i + Len(sub)) = sub

\* s.replace(a, b) for one-character a and b
Replace(s, a, b) == [i \in 1..Len(s) |-> IF s[i] = a THEN b ELSE s[i]]

\* a < b on str: the first differing character decides, a proper prefix is smaller
StrLess(a, b) ==
  \E i \in 1..(Len(a) + 1) :
     /\ i <= Len(b)
     /\ \A j \in 1..(i - 1) : a[j] = b[j]
     /\ (i = Len(a) + 1 \/ Ord[a[i]] < Ord[b[i]])

\* int(digits) for a str of decimal digits
RECURSIVE DigitsValue(_)
DigitsValue(ds) ==
  IF ds = <<>> THEN 0
  ELSE 10 * DigitsValue(SubSeq(ds, 1, Len(ds) - 1)) + DigitVal(ds[Len(ds)])

\* str(n) for an int n
RECURSIVE NatStr(_)
NatStr(n) ==
  IF n < 10 THEN <<Chars[Ord["0"] + n]>>
  ELSE NatStr(n \div 10) \o <<Chars[Ord["0"] + (n % 10)]>>

IntStr(n) == IF n < 0 THEN <<"-">> \o NatStr(0 - n) ELSE NatStr(n)

(***************************************************************************)
(* Spreadsheet cells as pandas hands them to the program: a missing cell    *)
(* (NaN), a text cell, an int cell, or a float cell (v counts tenths, so    *)
(* 25 is 2.5).                                                              *)
(***************************************************************************)
NaN == [t |-> "nan"]

Text(s) == [t |-> "str", s |-> s]

IntCell(n) == [t |-> "int", v |-> n]

FloatCell(tenths) == [t |-> "float", v |-> tenths]

\* pd.isna(value)
isna(value) == value.t = "nan"

Abs(n) == IF n < 0 THEN 0 - n ELSE n

\* str(value)
PyStr(value) ==
  CASE value.t = "str" -> value.s
    [] value.t = "int" -> IntStr(value.v)
    [] value.t = "float" ->
         (IF value.v < 0 THEN <<"-">> ELSE <<>>)
           \o NatStr(Abs(value.v) \div 10) \o <<".">> \o NatStr(Abs(value.v) % 10)

(***************************************************************************)
(* Program constants.                                                       *)
(***************************************************************************)
EXCEL_PATH == <<"I", "n", "p", "u", "t", "/", "A", "p", "p", "l", "i", "c", "a", "t", "i", "o", "n", "_", "I", "n", "v", "e", "n", "t", "o", "r", "y", ".", "x", "l", "s", "x">>

OUT_DIR == <<"O", "u", "t", "p", "u", "t", "/", "D", "i", "a", "g", "r", "a", "m", "s">>

FROM_CANDIDATES ==
  <<<<"f", "r", "o", "m", "_", "a", "p", "p">>,
    <<"f", "r", "o", "m", "-", "a", "p", "p">>,
    <<"f", "r", "o", "m">>,
    <<"f", "r", "o", "m", " ", "a", "p", "p">>>>

TO_CANDIDATES ==
  <<<<"t", "o", "_", "a", "p", "p">>,
    <<"t", "o", "-", "a", "p", "p">>,
    <<"t", "o">>,
    <<"t", "o", " ", "a", "p", "p">>,
    <<"t", "o", "_", "a", "p", "p">>>>

IFACE_CANDIDATES ==
  <<<<"i", "n", "t", "e", "r", "f", "a", "c", "e", "_", "n", "a", "m", "e">>,
    <<"i", "n", "t", "e", "r", "f", "a", "c", "e", "-", "n", "a", "m", "e">>,
    <<"i", "n", "t", "e", "r", "f", "a", "c", "e">>,
    <<"i", "n", "t", "e", "r", "f", "a", "c", "e", " ", "n", "a", "m", "e">>>>

INTTYPE_CANDIDATES ==
  <<<<"i", "n", "t", "_", "t", "y", "p", "e">>,
    <<"i", "n", "t", "-", "t", "y", "p", "e">>,
    <<"i", "n", "t", "e", "r", "f", "a", "c", "e", "_", "t", "y", "p", "e">>,
    <<"i", "n", "t", "e", "r", "f", "a", "c", "e", "-", "t", "y", "p", "e">>,
    <<"i", "n", "t", " ", "t", "y", "p", "e">>,
    <<"i", "n", "t", "e", "r", "f", "a", "c", "e", " ", "t", "y", "p", "e">>,
    <<"i", "n", "t", "_", "t", "y", "p", "e">>>>

DIR_CANDIDATES ==
  <<<<"d", "i", "r", "e", "c", "t", "i", "o", "n">>,
    <<"d", "i", "r">>,
    <<"D", "i", "r", "e", "c", "t", "i", "o", "n">>,
    <<"D", "i", "r", "e", "c", "t", "i", "o", "n">>>>

LEGEND == <<"l", "e", "g", "e", "n", "d">>

CLUSTER_LEGEND == <<"c", "l", "u", "s", "t", "e", "r", "_", "l", "e", "g", "e", "n", "d">>

ARCHITECTURE == <<"a", "r", "c", "h", "i", "t", "e", "c", "t", "u", "r", "e">>

FALLBACK_SVG == <<"O", "u", "t", "p", "u", "t", "/", "D", "i", "a", "g", "r", "a", "m", "s", "/", "a", "r", "c", "h", "i", "t", "e", "c", "t", "u", "r", "e", ".", "s", "v", "g">>

FALLBACK_DOT == <<"O", "u", "t", "p", "u", "t", "/", "D", "i", "a", "g", "r", "a", "m", "s", "/", "a", "r", "c", "h", "i", "t", "e", "c", "t", "u", "r", "e", ".", "d", "o", "t">>

\* os.path.join(a, b)
path_join(a, b) == a \o <<"/">> \o b

(***************************************************************************)
(* find_column.  The dict comprehension keeps one entry per lowercased,     *)
(* trimmed name: a repeated key keeps its first position and takes the      *)
(* last column's original name.  The dict is a sequence of <<key, orig>>.   *)
(***************************************************************************)
\* the dict keyed by the trimmed name without lower()
RECURSIVE cols_dict_case_sensitive(_)
cols_dict_case_sensitive(columns) ==
  IF columns = <<>> THEN <<>>
  ELSE LET d == cols_dict_case_sensitive(SubSeq(columns, 1, Len(columns) - 1))
           c == columns[Len(columns)]
           k == Strip(c)
           at == {j \in 1..Len(d) : d[j][1] = k}
       IN  IF at = {} THEN Append(d, <<k, c>>)
           ELSE [j \in 1..Len(d) |-> IF j \in at THEN <<k, c>> ELSE d[j]]

RECURSIVE cols_dict(_)
cols_dict(columns) ==
  IF columns = <<>> THEN <<>>
  ELSE LET d == cols_dict(SubSeq(columns, 1, Len(columns) - 1))
           c == columns[Len(columns)]
           k == Strip(Lower(c))
           at == {j \in 1..Len(d) : d[j][1] = k}
       IN  IF at = {} THEN Append(d, <<k, c>>)
           ELSE [j \in 1..Len(d) |-> IF j \in at THEN <<k, c>> ELSE d[j]]

find_column(columns, candidates) ==
  LET cols == cols_dict(columns)
      hit(cand) == {j \in 1..Len(cols) : Contains(cand, cols[j][1])}
      found == {i \in 1..Len(candidates) : hit(candidates[i]) # {}}
  IN  IF found = {} THEN None
      ELSE Some(cols[SetMin(hit(candidates[SetMin(found)]))][2])

\* normalize without the strip()
normalize_unstripped(value) == IF isna(value) THEN None ELSE Some(PyStr(value))

\* normalize(value)
normalize(value) == IF isna(value) THEN None ELSE Some(Strip(PyStr(value)))

\* Python truthiness of an optional str: not None and not ""
Truthy(opt) == opt # None /\ opt[1] # <<>>

(***************************************************************************)
(* Direction coercion.  float_int is int(float(raw_direction)): None stands *)
(* for the exception.  float() accepts, around optional whitespace, an      *)
(* optional sign and digits with at most one point; exponents, underscores, *)
(* "inf" and "nan" are not built from the modelled direction texts.         *)
(***************************************************************************)
\* int(raw_direction) in place of int(float(raw_direction)): a text with a point
\* is no int literal
float_int_no_point(raw) ==
  CASE raw.t = "int" -> Some(raw.v)
    [] raw.t = "float" ->
         Some(IF raw.v < 0 THEN 0 - (Abs(raw.v) \div 10) ELSE raw.v \div 10)
    [] raw.t = "str" ->
         LET s == Strip(raw.s)
             signed == s # <<>> /\ s[1] \in {"+", "-"}
             body == IF signed THEN Tail(s) ELSE s
             ok == body # <<>> /\ \A i \in 1..Len(body) : IsDigit(body[i])
         IN  IF ~ok THEN None
             ELSE Some(IF signed /\ s[1] = "-" THEN 0 - DigitsValue(body)
                       ELSE DigitsValue(body))

float_int(raw) ==
  CASE raw.t = "int" -> Some(raw.v)
    [] raw.t = "float" ->
         Some(IF raw.v < 0 THEN 0 - (Abs(raw.v) \div 10) ELSE raw.v \div 10)
    [] raw.t = "str" ->
         LET s == Strip(raw.s)
             signed == s # <<>> /\ s[1] \in {"+", "-"}
             body == IF signed THEN Tail(s) ELSE s
             dots == {i \in 1..Len(body) : body[i] = "."}
             digs == {i \in 1..Len(body) : IsDigit(body[i])}
             ok == /\ digs # {}
                   /\ Cardinality(dots) <= 1
                   /\ digs \cup dots = 1..Len(body)
             whole == IF dots = {} THEN body
                      ELSE SubSeq(body, 1, SetMin(dots) - 1)
             mag == DigitsValue(whole)
         IN  IF ~ok THEN None
             ELSE Some(IF signed /\ s[1] = "-" THEN 0 - mag ELSE mag)

\* "".join(ch for ch in s if ch.isdigit())
digits_of(s) == SelectSeq(s, IsDigit)

dir_fallback(raw) ==
  LET digits == digits_of(Strip(PyStr(raw)))
  IN  IF digits # <<>> THEN Some(DigitsValue(digits)) ELSE None

dir_val_of(present, raw_direction) ==
  IF present /\ ~isna(raw_direction)
  THEN IF float_int(raw_direction) # None THEN float_int(raw_direction)
       ELSE dir_fallback(raw_direction)
  ELSE None

\* row[col]: the cell of the column named col
IndexOf(columns, col) == CHOOSE i \in 1..Len(columns) : columns[i] = col

Cell(columns, row, col) == row[IndexOf(columns, col)]

\* one iteration of the row loop: the edges the row appends (none or one)
row_edges(columns, row, fc, tc, ic, tyc, dc) ==
  LET src == normalize(Cell(columns, row, fc[1]))
      dst == normalize(Cell(columns, row, tc[1]))
      iface == normalize(Cell(columns, row, ic[1]))
      inttype == IF tyc # None THEN normalize(Cell(columns, row, tyc[1])) ELSE None
      dir_val == dir_val_of(dc # None, IF dc # None THEN Cell(columns, row, dc[1]) ELSE NaN)
  IN  IF ~Truthy(src) \/ ~Truthy(dst) \/ ~Truthy(iface) THEN <<>>
      ELSE <<[src |-> src[1], dst |-> dst[1], iface |-> iface[1],
              inttype |-> inttype, dir_val |-> dir_val]>>

\* focus = args.focus.strip() if args.focus else None
parse_focus(arg) == IF Truthy(arg) THEN Some(Strip(arg[1])) ELSE None

\* the focus test by substring instead of equality
touches_substring(e, focus_low) ==
  Contains(focus_low, Lower(e.src)) \/ Contains(focus_low, Lower(e.dst))

\* the focus filter's test on one edge
touches(e, focus_low) == Lower(e.src) = focus_low \/ Lower(e.dst) = focus_low

focus_filter(es, focus) ==
  IF Truthy(focus)
  THEN SelectSeq(es, LAMBDA e : touches(e, Lower(focus[1])))
  ELSE es

(***************************************************************************)
(* Graph emitter.  The document dot is the sequence of statements the       *)
(* graphviz calls append; an attribute dict is a set of <<key, value>>.     *)
(***************************************************************************)
nodes_of(es) == {es[i].src : i \in 1..Len(es)} \cup {es[i].dst : i \in 1..Len(es)}

\* the orders in which iterating a set can yield its elements
RECURSIVE iterations(_)
iterations(S) ==
  IF S = {} THEN {<<>>}
  ELSE UNION {{<<x>> \o p : p \in iterations(S \ {x})} : x \in S}

\* the node set iterated without sorting
sorted_unsorted(items) == items

\* sorted(iterable) on str values
RECURSIVE sorted(_)
sorted(items) ==
  IF items = <<>> THEN <<>>
  ELSE LET rest == sorted(Tail(items))
           x == Head(items)
           k == Cardinality({i \in 1..Len(rest) : StrLess(rest[i], x)})
       IN  SubSeq(rest, 1, k) \o <<x>> \o SubSeq(rest, k + 1, Len(rest))

\* the color mapping with the webservice test ahead of the file test
color_attrs_web_first(inttype) ==
  IF Truthy(inttype)
  THEN LET t == Lower(inttype[1])
       IN  IF \/ Contains(<<"w", "e", "b", "s", "e", "r", "v", "i", "c", "e">>, t)
              \/ Contains(<<"w", "e", "b", " ", "s", "e", "r", "v", "i", "c", "e">>, t)
           THEN {<<"color", "blue">>, <<"fontcolor", "blue">>}
           ELSE IF Contains(<<"f", "i", "l", "e">>, t)
                THEN {<<"color", "red">>, <<"fontcolor", "red">>}
                ELSE {}
  ELSE {}

\* the color mapping of one edge
color_attrs(inttype) ==
  IF Truthy(inttype)
  THEN LET t == Lower(inttype[1])
       IN  IF Contains(<<"f", "i", "l", "e">>, t)
           THEN {<<"color", "red">>, <<"fontcolor", "red">>}
           ELSE IF \/ Contains(<<"w", "e", "b", "s", "e", "r", "v", "i", "c", "e">>, t)
                   \/ Contains(<<"w", "e", "b", " ", "s", "e", "r", "v", "i", "c", "e">>, t)
                THEN {<<"color", "blue">>, <<"fontcolor", "blue">>}
                ELSE {}
  ELSE {}

\* direction handling: 2 = two-way, anything else one-way
dir_attrs(dir_val) ==
  IF dir_val = Some(2) THEN {<<"dir", "both">>} ELSE {<<"dir", "forward">>}

edge_attrs(e) ==
  color_attrs(e.inttype) \cup dir_attrs(e.dir_val)
    \cup {<<"fontsize", "10">>, <<"labelangle", "0">>, <<"labeldistance", "1.0">>}

graph_attrs ==
  <<[stmt |-> "attr", attrs |-> {<<"rankdir", "LR">>}],
    [stmt |-> "attr", attrs |-> {<<"splines", "true">>}],
    [stmt |-> "attr", attrs |-> {<<"nodesep", "0.4">>}],
    [stmt |-> "attr", attrs |-> {<<"ranksep", "0.6">>}]>>

node_stmt(n) == [stmt |-> "node", name |-> n, attrs |-> {<<"shape", "box">>}]

legend_node ==
  [stmt |-> "node", name |-> LEGEND,
   attrs |-> {<<"label", "legend_label">>, <<"shape", "none">>}]

\* the legend block: the sink-ranked subgraph and the invisible anchor edge, or
\* the plain legend node when a graphviz call raised before anything was added
legend_stmts(ordered, api_ok) ==
  IF api_ok
  THEN <<[stmt |-> "subgraph", name |-> CLUSTER_LEGEND,
          attrs |-> {<<"rank", "sink">>}, body |-> <<legend_node>>]>>
       \o (IF ordered # <<>> /\ ordered[1] # <<>>
           THEN <<[stmt |-> "edge", tail |-> LEGEND, head |-> ordered[1], label |-> None,
                   attrs |-> {<<"style", "invis">>, <<"weight", "100">>,
                              <<"constraint", "true">>}]>>
           ELSE <<>>)
  ELSE <<legend_node>>

edge_stmt(e) ==
  [stmt |-> "edge", tail |-> e.src, head |-> e.dst, label |-> Some(e.iface),
   attrs |-> edge_attrs(e)]

\* the document built from the final edge list; order is the order in which the
\* node set was iterated, api_ok whether the legend's graphviz calls succeeded
build_dot(es, order, api_ok) ==
  LET ordered == sorted(order)
  IN  graph_attrs
        \o [i \in 1..Len(ordered) |-> node_stmt(ordered[i])]
        \o legend_stmts(ordered, api_ok)
        \o [i \in 1..Len(es) |-> edge_stmt(es[i])]

\* output names
base_name(focus) ==
  IF Truthy(focus) THEN ARCHITECTURE \o <<"_">> \o Replace(focus[1], " ", "_")
  ELSE ARCHITECTURE

dot_path(focus) == path_join(OUT_DIR, base_name(focus) \o <<".", "d", "o", "t">>)

svg_path(focus) == path_join(OUT_DIR, base_name(focus) \o <<".", "s", "v", "g">>)

png_path(focus) == path_join(OUT_DIR, base_name(focus) \o <<".", "p", "n", "g">>)

\* the file dot.render saves the source to before it runs the executable
render_source(focus) == path_join(OUT_DIR, base_name(focus))

\* how print shows an optional str
Shown(opt) == IF opt = None THEN <<"N", "o", "n", "e">> ELSE opt[1]

(***************************************************************************)
(* Inputs of a run: the --focus argument and the spreadsheet on disk.       *)
(***************************************************************************)
\* the header the program is written for
DefaultHeader ==
  <<<<"F", "r", "o", "m", "_", "A", "p", "p">>,
    <<"T", "o", "-", "A", "p", "p">>,
    <<"I", "n", "t", "e", "r", "f", "a", "c", "e", "_", "N", "a", "m", "e">>,
    <<"I", "n", "t", "_", "T", "y", "p", "e">>,
    <<"D", "i", "r", "e", "c", "t", "i", "o", "n">>>>

Headers ==
  {DefaultHeader,
   <<<<"S", "o", "u", "r", "c", "e", "A", "p", "p">>,
     <<"D", "e", "s", "t", "A", "p", "p">>,
     <<"I", "F", "_", "N", "a", "m", "e">>>>,
   <<<<"F", "r", "o", "m">>,
     <<"f", "r", "o", "m", " ">>,
     <<"T", "o">>,
     <<"I", "n", "t", "e", "r", "f", "a", "c", "e">>>>,
   <<<<" ", "F", "R", "O", "M", "_", "A", "P", "P", " ">>,
     <<"T", "O", "-", "A", "P", "P">>,
     <<"I", "n", "t", "e", "r", "f", "a", "c", "e", " ", "N", "a", "m", "e">>,
     <<"I", "n", "t", "e", "r", "f", "a", "c", "e", " ", "T", "y", "p", "e">>,
     <<"D", "i", "r">>>>,
   <<<<"F", "r", "o", "m", "_", "A", "p", "p">>,
     <<"T", "o", "-", "A", "p", "p">>,
     <<"I", "n", "t", "e", "r", "f", "a", "c", "e", "_", "N", "a", "m", "e">>,
     <<"F", "l", "o", "w">>>>,
   <<<<"T", "o", "-", "A", "p", "p">>,
     <<"I", "n", "t", "e", "r", "f", "a", "c", "e", "_", "N", "a", "m", "e">>>>,
   <<<<"I", "n", "t", "e", "r", "f", "a", "c", "e", "_", "T", "y", "p", "e">>,
     <<"I", "n", "t", "e", "r", "f", "a", "c", "e", "_", "N", "a", "m", "e">>,
     <<"F", "r", "o", "m", " ", "A", "p", "p">>,
     <<"T", "o", " ", "A", "p", "p">>>>,
   <<<<"C", "u", "s", "t", "o", "m", "e", "r">>,
     <<"F", "r", "o", "m">>,
     <<"I", "n", "t", "e", "r", "f", "a", "c", "e">>>>,
   <<<<"x", "_", "f", "r", "o", "m">>,
     <<"F", "r", "o", "m">>,
     <<"f", "r", "o", "m", " ">>,
     <<"T", "o">>,
     <<"I", "n", "t", "e", "r", "f", "a", "c", "e">>>>}

\* a row of text cells for a header of n columns
FillRow(n) ==
  SubSeq(<<Text(<<"A">>),
    Text(<<"B">>),
    Text(<<"i", "f", "1">>),
    Text(<<"2">>),
    Text(<<"F", "i", "l", "e">>)>>, 1, n)

\* rows under DefaultHeader varying the source, destination and interface name
NameRows ==
  {<<Text(<<"A">>), Text(<<"B">>), Text(<<"i", "f", "1">>),
     Text(<<"F", "i", "l", "e", " ", "T", "r", "a", "n", "s", "f", "e", "r">>), IntCell(2)>>,
   <<Text(<<" ", "A", " ">>), Text(<<"B", " ">>), Text(<<" ", "i", "f", "1", " ">>), NaN, NaN>>,
   <<NaN, Text(<<"B">>), Text(<<"i", "f", "1">>), NaN, NaN>>,
   <<Text(<<"A">>), Text(<<" ", " ">>), Text(<<"i", "f", "1">>), NaN, NaN>>,
   <<Text(<<"B">>), Text(<<"A">>), NaN, NaN, NaN>>,
   <<Text(<<"A">>), Text(<<"c", "r", "m">>), Text(<<"i", "f", "2">>),
     Text(<<"W", "e", "b", "S", "e", "r", "v", "i", "c", "e">>), IntCell(1)>>,
   <<Text(<<"C", "R", "M">>), Text(<<"B">>), Text(<<"i", "f", "3">>), NaN, NaN>>,
   <<Text(<<"C", "R", "M", "-", "L", "e", "g", "a", "c", "y">>), Text(<<"B">>),
     Text(<<"i", "f", "4">>), NaN, NaN>>,
   <<Text(<<"l", "e", "g", "e", "n", "d">>), Text(<<"m">>), Text(<<"i", "f", "5">>), NaN, NaN>>,
   <<Text(<<"a", " ", "b">>), IntCell(7), Text(<<"i", "f", "6">>), NaN, NaN>>}

SeqsUpTo(S, n) == UNION {[1..k -> S] : k \in 0..n}

DirAlphabet == {"2", "0", ".", "-", " ", "d"}

\* raw direction cells
DirCells ==
  {NaN, IntCell(1), IntCell(2), IntCell(3), FloatCell(20), FloatCell(29), FloatCell(0 - 29),
   Text(<<"2", ".", "0">>),
   Text(<<"t", "w", "o">>),
   Text(<<"d", "i", "r", ":", " ", "2", " ", "w", "a", "y">>)}
    \cup {Text(s) : s \in SeqsUpTo(DirAlphabet, MaxLen) \ {<<>>}}

TypeTokens ==
  {<<"F", "i", "l", "e">>,
   <<"f", "i", "l", "e">>,
   <<"W", "e", "b", "S", "e", "r", "v", "i", "c", "e">>,
   <<"w", "e", "b", " ", "s", "e", "r", "v", "i", "c", "e">>,
   <<"W", "e", "b">>,
   <<"S", "e", "r", "v", "i", "c", "e">>,
   <<" ">>,
   <<"x">>}

RECURSIVE Flatten(_)
Flatten(ss) == IF ss = <<>> THEN <<>> ELSE Head(ss) \o Flatten(Tail(ss))

\* interface-type cells
TypeCells ==
  {NaN,
   Text(<<"F", "i", "l", "e", " ", "T", "r", "a", "n", "s", "f", "e", "r">>),
   Text(<<"W", "e", "b", "S", "e", "r", "v", "i", "c", "e">>),
   Text(<<"W", "e", "b", " ", "S", "e", "r", "v", "i", "c", "e">>),
   Text(<<"M", "e", "s", "s", "a", "g", "e", " ", "Q", "u", "e", "u", "e">>)}
    \cup {Text(Flatten(ts)) : ts \in SeqsUpTo(TypeTokens, MaxTokens) \ {<<>>}}

\* values of args.focus
FocusArgs ==
  {None, Some(<<>>), Some(<<" ", " ">>), Some(<<"C", "R", "M">>), Some(<<" ", "c", "r", "m", " ">>), Some(<<"a", " ", "b">>)}

Sheet(columns, rows) == [columns |-> columns, rows |-> rows]

BaseRow(inttype, direction) ==
  <<Text(<<"A">>), Text(<<"B">>), Text(<<"i", "f", "1">>), inttype, direction>>

VARIABLES
  argv_focus,    \* args.focus as parsed from the command line
  file_exists,   \* whether EXCEL_PATH exists
  file_parses,   \* whether read_excel can parse it
  sheet,         \* the first sheet of the file: columns and rows
  pc,            \* the position of main()
  focus,
  df,
  from_col, to_col, iface_col, inttype_col, dir_col,
  row_i,         \* rows of df.iterrows() consumed
  edges,
  dot,           \* the statements of the Digraph
  out_dir_made,  \* os.makedirs(OUT_DIR) ran
  files,         \* paths written by this run
  printed,       \* console output: <<text, argument>> per line
  exit_status

inputs == <<argv_focus, file_exists, file_parses, sheet>>

cols == <<from_col, to_col, iface_col, inttype_col, dir_col>>

outputs == <<out_dir_made, files, printed, exit_status>>

vars == <<inputs, pc, focus, df, cols, row_i, edges, dot, outputs>>

InitInputs ==
  \/ /\ argv_focus = None
     /\ file_exists \in BOOLEAN
     /\ file_parses \in BOOLEAN
     /\ \E h \in Headers : sheet = Sheet(h, <<FillRow(Len(h))>>)
  \/ /\ argv_focus \in FocusArgs
     /\ file_exists = TRUE
     /\ file_parses = TRUE
     /\ \E rows \in SeqsUpTo(NameRows, MaxRows) : sheet = Sheet(DefaultHeader, rows)
  \/ /\ argv_focus = None
     /\ file_exists = TRUE
     /\ file_parses = TRUE
     /\ \E d \in DirCells : sheet = Sheet(DefaultHeader, <<BaseRow(NaN, d)>>)
  \/ /\ argv_focus = None
     /\ file_exists = TRUE
     /\ file_parses = TRUE
     /\ \E t \in TypeCells : sheet = Sheet(DefaultHeader, <<BaseRow(t, NaN)>>)

Init ==
  /\ InitInputs
  /\ pc = "start"
  /\ focus = None
  /\ df = None
  /\ from_col = None /\ to_col = None /\ iface_col = None
  /\ inttype_col = None /\ dir_col = None
  /\ row_i = 0
  /\ edges = <<>>
  /\ dot = <<>>
  /\ out_dir_made = FALSE
  /\ files = {}
  /\ printed = <<>>
  /\ exit_status = None

Exit(status) == pc' = "exit" /\ exit_status' = Some(status)

\* lines 47-50
ParseArgs ==
  /\ pc = "start"
  /\ focus' = parse_focus(argv_focus)
  /\ pc' = "check_file"
  /\ UNCHANGED <<inputs, df, cols, row_i, edges, dot, outputs>>

\* lines 51-53
MissingInputFile ==
  /\ pc = "check_file" /\ ~file_exists
  /\ printed' = Append(printed, <<"Excel file not found at", EXCEL_PATH>>)
  /\ Exit(2)
  /\ UNCHANGED <<inputs, focus, df, cols, row_i, edges, dot, out_dir_made, files>>

\* line 55
ReadExcel ==
  /\ pc = "check_file" /\ file_exists /\ file_parses
  /\ df' = Some(sheet)
  /\ pc' = "resolve"
  /\ UNCHANGED <<inputs, focus, cols, row_i, edges, dot, outputs>>

\* line 55, read_excel raising: the exception leaves main() uncaught
LoadError ==
  /\ pc = "check_file" /\ file_exists /\ ~file_parses
  /\ Exit(1)
  /\ UNCHANGED <<inputs, focus, df, cols, row_i, edges, dot, out_dir_made, files, printed>>

\* lines 58-63
ResolveColumns ==
  /\ pc = "resolve"
  /\ from_col' = find_column(df[1].columns, FROM_CANDIDATES)
  /\ to_col' = find_column(df[1].columns, TO_CANDIDATES)
  /\ iface_col' = find_column(df[1].columns, IFACE_CANDIDATES)
  /\ inttype_col' = find_column(df[1].columns, INTTYPE_CANDIDATES)
  /\ dir_col' = find_column(df[1].columns, DIR_CANDIDATES)
  /\ pc' = "check_cols"
  /\ UNCHANGED <<inputs, focus, df, row_i, edges, dot, outputs>>

required_found == Truthy(from_col) /\ Truthy(to_col) /\ Truthy(iface_col)

\* lines 65-73
UnresolvedRequiredColumn ==
  /\ pc = "check_cols" /\ ~required_found
  /\ printed' = printed
       \o <<<<"Could not locate required columns. Found:", <<>>>>,
            <<"  from_col:", Shown(from_col)>>,
            <<"  to_col:", Shown(to_col)>>,
            <<"  iface_col:", Shown(iface_col)>>,
            <<"Columns present in the sheet:", <<>>>>>>
       \o [i \in 1..Len(df[1].columns) |-> <<" -", df[1].columns[i]>>]
  /\ Exit(3)
  /\ UNCHANGED <<inputs, focus, df, cols, row_i, edges, dot, out_dir_made, files>>

\* lines 65, 76
StartRows ==
  /\ pc = "check_cols" /\ required_found
  /\ edges' = <<>>
  /\ row_i' = 0
  /\ pc' = "rows"
  /\ UNCHANGED <<inputs, focus, df, cols, dot, outputs>>

\* lines 77-102, one iteration
NormalizeRow ==
  /\ pc = "rows" /\ row_i < Len(df[1].rows)
  /\ edges' = edges \o row_edges(df[1].columns, df[1].rows[row_i + 1],
                                  from_col, to_col, iface_col, inttype_col, dir_col)
  /\ row_i' = row_i + 1
  /\ UNCHANGED <<inputs, pc, focus, df, cols, dot, outputs>>

\* lines 104-111, after the last row
FocusFilter ==
  /\ pc = "rows" /\ row_i = Len(df[1].rows)
  /\ edges' = focus_filter(edges, focus)
  /\ pc' = "check_edges"
  /\ UNCHANGED <<inputs, focus, df, cols, row_i, dot, outputs>>

\* the empty-edge exit with os.makedirs moved ahead of the check
NoValidEdges_after_makedirs ==
  /\ pc = "check_edges" /\ edges = <<>>
  /\ out_dir_made' = TRUE
  /\ printed' = Append(printed, <<"No valid edges found in the spreadsheet.", <<>>>>)
  /\ Exit(0)
  /\ UNCHANGED <<inputs, focus, df, cols, row_i, edges, dot, files>>

\* lines 113-115
NoValidEdges ==
  /\ pc = "check_edges" /\ edges = <<>>
  /\ printed' = Append(printed, <<"No valid edges found in the spreadsheet.", <<>>>>)
  /\ Exit(0)
  /\ UNCHANGED <<inputs, focus, df, cols, row_i, edges, dot, out_dir_made, files>>

\* line 117
MakeDirs ==
  /\ pc = "check_edges" /\ edges # <<>>
  /\ out_dir_made' = TRUE
  /\ pc' = "build"
  /\ UNCHANGED <<inputs, focus, df, cols, row_i, edges, dot, files, printed, exit_status>>

\* lines 119-185
BuildGraph ==
  /\ pc = "build"
  /\ \E order \in iterations(nodes_of(edges)), api_ok \in BOOLEAN :
        dot' = build_dot(edges, order, api_ok)
  /\ pc' = "write"
  /\ UNCHANGED <<inputs, focus, df, cols, row_i, edges, outputs>>

\* lines 187-193
WriteDot ==
  /\ pc = "write"
  /\ files' = files \cup {dot_path(focus)}
  /\ printed' = Append(printed, <<"Wrote DOT file to:", dot_path(focus)>>)
  /\ pc' = "render_svg"
  /\ UNCHANGED <<inputs, focus, df, cols, row_i, edges, dot, out_dir_made, exit_status>>

\* lines 196-208: render saves the source, runs the executable and removes the
\* source again; the executable failing raises before the removal.  When render
\* returns, the executable has written <base>.svg, so line 204 is not reached.
RenderSvg ==
  /\ pc = "render_svg"
  /\ \/ /\ files' = files \cup {svg_path(focus)}
        /\ printed' = Append(printed, <<"Rendered SVG to:", svg_path(focus)>>)
     \/ /\ files' = files \cup {render_source(focus)}
        /\ printed' = printed
             \o <<<<"Rendering failed (Graphviz executable may be missing):", <<>>>>,
                  <<"You still have the DOT file and can render it with the 'dot' tool:",
                    <<>>>>,
                  <<"  dot -Tsvg -o", FALLBACK_SVG \o <<" ">> \o FALLBACK_DOT>>>>
  /\ pc' = "render_png"
  /\ UNCHANGED <<inputs, focus, df, cols, row_i, edges, dot, out_dir_made, exit_status>>

\* lines 210-218, then main() returns
RenderPng ==
  /\ pc = "render_png"
  /\ \/ /\ files' = (files \ {render_source(focus)}) \cup {png_path(focus)}
        /\ printed' = Append(printed, <<"Rendered PNG to:", png_path(focus)>>)
     \/ /\ files' = files \cup {render_source(focus)}
        /\ printed' = printed
  /\ pc' = "done"
  /\ exit_status' = Some(0)
  /\ UNCHANGED <<inputs, focus, df, cols, row_i, edges, dot, out_dir_made>>

Next ==
  \/ ParseArgs
  \/ MissingInputFile
  \/ ReadExcel
  \/ LoadError
  \/ ResolveColumns
  \/ UnresolvedRequiredColumn
  \/ StartRows
  \/ NormalizeRow
  \/ FocusFilter
  \/ NoValidEdges
  \/ MakeDirs
  \/ BuildGraph
  \/ WriteDot
  \/ RenderSvg
  \/ RenderPng

Spec == Init /\ [][Next]_vars

(***************************************************************************)
(* Properties.                                                              *)
(***************************************************************************)
Resolved == pc \notin {"start", "check_file", "resolve"} /\ df # None

\* a and b are the same character up to letter case
SameLetter(a, b) == a = b \/ LowerChar(a) = b \/ a = LowerChar(b)

\* s without its leading and trailing blanks, by its defining property
Trimmed(s) ==
  CHOOSE t \in {SubSeq(s, i, j) : i \in 1..(Len(s) + 1), j \in 0..Len(s)} :
    /\ t = <<>> \/ (t[1] # " " /\ t[Len(t)] # " ")
    /\ \E i \in 0..(Len(s) - Len(t)) :
         /\ SubSeq(s, i + 1, i + Len(t)) = t
         /\ \A j \in (1..i) \cup ((i + Len(t) + 1)..Len(s)) : s[j] = " "

\* column name c, lowercased and trimmed, contains cand
NameHas(c, cand) ==
  LET k == Trimmed(Lower(c))
  IN  \E i \in 0..(Len(k) - Len(cand)) : \A j \in 1..Len(cand) : k[i + j] = cand[j]

\* the first column, in sheet order, matched by the earliest candidate that
\* matches any column
FirstMatch(columns, candidates) ==
  LET matched(i) == {j \in 1..Len(columns) : NameHas(columns[j], candidates[i])}
      found == {i \in 1..Len(candidates) : matched(i) # {}}
  IN  IF found = {} THEN None
      ELSE Some(columns[SetMin(matched(SetMin(found)))])

\* C1: find_column returns the first column, in original column order, whose
\* lowercased, trimmed name contains a candidate, candidates tried in the given
\* order, and None when no column matches; also when two columns share their
\* lowercased, trimmed name.
C1_FindColumnReturnsFirstMatch ==
  Resolved =>
    /\ from_col = FirstMatch(df[1].columns, FROM_CANDIDATES)
    /\ to_col = FirstMatch(df[1].columns, TO_CANDIDATES)
    /\ iface_col = FirstMatch(df[1].columns, IFACE_CANDIDATES)
    /\ inttype_col = FirstMatch(df[1].columns, INTTYPE_CANDIDATES)
    /\ dir_col = FirstMatch(df[1].columns, DIR_CANDIDATES)

SourceDestHeader ==
  <<<<"S", "o", "u", "r", "c", "e", "A", "p", "p">>,
    <<"D", "e", "s", "t", "A", "p", "p">>,
    <<"I", "F", "_", "N", "a", "m", "e">>>>

VariantHeader ==
  <<<<" ", "F", "R", "O", "M", "_", "A", "P", "P", " ">>,
    <<"T", "O", "-", "A", "P", "P">>,
    <<"I", "n", "t", "e", "r", "f", "a", "c", "e", " ", "N", "a", "m", "e">>,
    <<"I", "n", "t", "e", "r", "f", "a", "c", "e", " ", "T", "y", "p", "e">>,
    <<"D", "i", "r">>>>

\* C2 as stated: with the columns SourceApp, DestApp and IF_Name the default
\* candidate lists find source, destination and interface name, and the run
\* does not end with the required-columns-not-found status.
C2_SourceDestHeaderResolves ==
  (Resolved /\ df[1].columns = SourceDestHeader) =>
    /\ required_found
    /\ exit_status # Some(3)

\* C2 amended: with the columns SourceApp, DestApp and IF_Name none of the three
\* required fields is found and the run ends with status 3 before any row is
\* read; names that contain a default candidate up to case and surrounding
\* blanks (" FROM_APP ", "TO-APP", "Interface Name") are found.
C2_SourceDestHeaderUnresolved ==
  /\ (Resolved /\ df[1].columns = SourceDestHeader) =>
        /\ from_col = None /\ to_col = None /\ iface_col = None
        /\ pc \in {"check_cols", "exit"}
        /\ pc = "exit" => exit_status = Some(3) /\ row_i = 0 /\ edges = <<>>
  /\ (Resolved /\ df[1].columns = VariantHeader) =>
        /\ from_col = Some(VariantHeader[1])
        /\ to_col = Some(VariantHeader[2])
        /\ iface_col = Some(VariantHeader[3])
        /\ exit_status # Some(3)

C2_Witness ==
  /\ pc = "exit"
  /\ df # None /\ df[1].columns = SourceDestHeader
  /\ exit_status = Some(3)
  /\ from_col = None /\ to_col = None /\ iface_col = None

\* the text of a cell is missing, null-equivalent or whitespace-only
Blank(cell) ==
  cell.t = "nan" \/ (cell.t = "str" /\ \A i \in 1..Len(cell.s) : cell.s[i] = " ")

\* the source, destination and interface-name cells of a row
RequiredCells(row) ==
  <<Cell(df[1].columns, row, from_col[1]),
    Cell(df[1].columns, row, to_col[1]),
    Cell(df[1].columns, row, iface_col[1])>>

Complete(row) == \A k \in 1..3 : ~Blank(RequiredCells(row)[k])

\* the rows read so far that are complete, in row order, as trimmed texts
ExpectedEndpoints ==
  LET kept == SelectSeq(SubSeq(df[1].rows, 1, row_i), Complete)
  IN  [i \in 1..Len(kept) |-> [k \in 1..3 |-> Trimmed(PyStr(RequiredCells(kept[i])[k]))]]

\* C3: before the focus filter the edge list is the row-order-preserving image
\* of the rows whose source, destination and interface name are all present and
\* non-blank after trimming, each carrying the trimmed values; every other row
\* yields no edge; so every edge has non-empty source, destination and name.
C3_EdgesAreCompleteRowsTrimmed ==
  pc = "rows" =>
    /\ [i \in 1..Len(edges) |-> <<edges[i].src, edges[i].dst, edges[i].iface>>]
         = ExpectedEndpoints
    /\ \A i \in 1..Len(edges) :
         edges[i].src # <<>> /\ edges[i].dst # <<>> /\ edges[i].iface # <<>>

\* a blank row, then a row whose cells carry surrounding blanks, both read
C3_Witness ==
  /\ pc = "rows" /\ row_i = 2 /\ Len(df[1].rows) = 2
  /\ Blank(RequiredCells(df[1].rows[1])[2])
  /\ RequiredCells(df[1].rows[2])[1] = Text(<<" ", "A", " ">>)
  /\ Len(edges) = 1
  /\ edges[1].src = <<"A">>

\* the integer part of v tenths, towards zero
Truncated(v) == CHOOSE n \in (0 - Abs(v))..Abs(v) :
                  /\ 10 * Abs(n) <= Abs(v) /\ Abs(v) < 10 * (Abs(n) + 1)
                  /\ (v >= 0 => n >= 0) /\ (v <= 0 => n <= 0)

AllDigits(s) == \A i \in 1..Len(s) : IsDigit(s[i])

\* the ways to read t as sign, whole digits and optional point with fraction
NumericReadings(t) ==
  {r \in [sign : {<<>>, <<"+">>, <<"-">>}, a : 0..Len(t), point : BOOLEAN] :
     LET rest == SubSeq(t, Len(r.sign) + 1, Len(t))
         whole == SubSeq(rest, 1, r.a)
         frac == SubSeq(rest, r.a + (IF r.point THEN 2 ELSE 1), Len(rest))
     IN  /\ Len(r.sign) <= Len(t) /\ SubSeq(t, 1, Len(r.sign)) = r.sign
         /\ r.a <= Len(rest)
         /\ AllDigits(whole) /\ AllDigits(frac)
         /\ IF r.point THEN r.a < Len(rest) /\ rest[r.a + 1] = "."
                             /\ Len(whole) + Len(frac) > 0
            ELSE r.a = Len(rest) /\ r.a > 0}

\* the number made of the decimal digits of s, read left to right
RECURSIVE DigitsRead(_, _)
DigitsRead(s, acc) ==
  IF s = <<>> THEN acc
  ELSE DigitsRead(Tail(s), IF IsDigit(Head(s)) THEN 10 * acc + DigitVal(Head(s)) ELSE acc)

\* what the coercion of raw is to yield
ExpectedDirection(raw) ==
  CASE Blank(raw) -> None
    [] raw.t = "int" -> Some(raw.v)
    [] raw.t = "float" -> Some(Truncated(raw.v))
    [] OTHER ->
         LET t == Trimmed(raw.s)
             readings == NumericReadings(t)
         IN  IF readings # {}
             THEN LET r == CHOOSE x \in readings : TRUE
                      whole == DigitsRead(SubSeq(t, Len(r.sign) + 1, Len(r.sign) + r.a), 0)
                  IN  Some(IF r.sign = <<"-">> THEN 0 - whole ELSE whole)
             ELSE IF \E i \in 1..Len(t) : IsDigit(t[i]) THEN Some(DigitsRead(t, 0))
             ELSE None

DirCellOf(row) == Cell(df[1].columns, row, dir_col[1])

SameFolded(a, b) == Len(a) = Len(b) /\ \A i \in 1..Len(a) : SameLetter(a[i], b[i])

\* the focus string: the --focus argument without surrounding blanks
FocusString == IF argv_focus = None THEN <<>> ELSE Trimmed(argv_focus[1])

Focused(e) == SameFolded(e.src, FocusString) \/ SameFolded(e.dst, FocusString)

\* C5: with a non-empty focus string the filtered edge list is the subsequence,
\* in the original order and with parallel edges kept, of the edges whose source
\* or destination equals the focus string case-insensitively as a whole string;
\* with no focus, or one that is empty after trimming, the list is unchanged.
C5_FocusFilterExact ==
  [][(pc = "rows" /\ pc' = "check_edges") =>
       edges' = IF FocusString = <<>> THEN edges ELSE SelectSeq(edges, Focused)]_vars

\* focus CRM: the edge into "crm" is kept, the edge from "CRM-Legacy" is dropped
C5_Witness ==
  /\ pc = "check_edges"
  /\ argv_focus = Some(<<"C", "R", "M">>)
  /\ row_i = 2
  /\ df[1].rows[1][2] = Text(<<"c", "r", "m">>)
  /\ df[1].rows[2][1] = Text(<<"C", "R", "M", "-", "L", "e", "g", "a", "c", "y">>)
  /\ Len(edges) = 1
  /\ edges[1].dst = <<"c", "r", "m">>

\* C6: a run that ends early ends with its condition's own status and without
\* creating the output directory or writing a file: 2 for a missing input file,
\* before the table is loaded; 3 for an unresolved required column, before any
\* row is processed; 0 for an empty final edge list.  The output directory is
\* created only when the final edge list is non-empty.
C6_EarlyExitsWriteNothing ==
  /\ pc = "exit" => ~out_dir_made /\ files = {}
  /\ (pc = "exit" /\ ~file_exists) => exit_status = Some(2) /\ df = None
  /\ ~file_exists => pc \in {"start", "check_file", "exit"}
  /\ (pc = "exit" /\ df # None /\ ~required_found) =>
       exit_status = Some(3) /\ row_i = 0 /\ edges = <<>>
  /\ (Resolved /\ ~required_found) => pc \in {"check_cols", "exit"}
  /\ (pc = "exit" /\ df # None /\ required_found) =>
       exit_status = Some(0) /\ edges = <<>> /\ row_i = Len(df[1].rows)
  /\ out_dir_made => edges # <<>> /\ pc \in {"build", "write", "render_svg", "render_png", "done"}
  /\ (pc \in {"build", "write", "render_svg", "render_png", "done"}) => out_dir_made

\* a focus that filters two valid edges down to none
C6_Witness ==
  /\ pc = "exit" /\ exit_status = Some(0)
  /\ Truthy(focus)
  /\ row_i = 2
  /\ Complete(df[1].rows[1]) /\ Complete(df[1].rows[2])
  /\ ~out_dir_made /\ files = {}

\* the lines this run printed with the given text
PrintedWith(text) == SelectSeq(printed, LAMBDA line : line[1] = text)

\* C7: after a vector-render failure the report names the path of the text
\* description written in this run (<base>.dot), the raster render is still
\* attempted and the run ends normally; the text description stays in place.
C7_FallbackNamesWrittenDot ==
  (pc \in {"render_png", "done"}
     /\ PrintedWith("Rendering failed (Graphviz executable may be missing):") # <<>>) =>
    /\ \A i \in 1..Len(PrintedWith("Wrote DOT file to:")) :
         \E j \in 1..Len(PrintedWith("  dot -Tsvg -o")) :
           Contains(PrintedWith("Wrote DOT file to:")[i][2], PrintedWith("  dot -Tsvg -o")[j][2])
    /\ \A i \in 1..Len(PrintedWith("Wrote DOT file to:")) :
         PrintedWith("Wrote DOT file to:")[i][2] \in files
    /\ \A i \in 1..Len(PrintedWith("Wrote DOT file to:")) :
         PrintedWith("Wrote DOT file to:")[i][2]
           = OUT_DIR \o <<"/">> \o ARCHITECTURE
               \o (IF FocusString = <<>> THEN <<>>
                   ELSE <<"_">> \o [k \in 1..Len(FocusString) |->
                                     IF FocusString[k] = " " THEN "_" ELSE FocusString[k]])
               \o <<".", "d", "o", "t">>
    /\ pc = "done" => exit_status = Some(0)

Built == pc \in {"write", "render_svg", "render_png", "done"}

\* the positions of the box node declarations and of the drawn connections
BoxNodeAt == {i \in 1..Len(dot) : dot[i].stmt = "node" /\ <<"shape", "box">> \in dot[i].attrs}

DrawnAt == {i \in 1..Len(dot) : dot[i].stmt = "edge" /\ <<"style", "invis">> \notin dot[i].attrs}

\* the k-th smallest element of a set of positions
Nth(S, k) == CHOOSE x \in S : Cardinality({y \in S : y < x}) = k - 1

BoxNodes == [k \in 1..Cardinality(BoxNodeAt) |-> dot[Nth(BoxNodeAt, k)].name]

Drawn == [k \in 1..Cardinality(DrawnAt) |-> dot[Nth(DrawnAt, k)]]

Endpoints == {edges[i].src : i \in 1..Len(edges)} \cup {edges[i].dst : i \in 1..Len(edges)}

\* C8: the document declares one box node per distinct endpoint, the node set
\* being exactly the endpoints of the final edges, in lexicographically sorted
\* order, and then one drawn connection per edge, labeled with its interface
\* name, in row order, parallel edges kept; so it is determined by the edge list.
C8_DocumentFromEdgeList ==
  Built =>
    /\ {BoxNodes[k] : k \in 1..Len(BoxNodes)} = Endpoints
    /\ \A k \in 1..(Len(BoxNodes) - 1) : StrLess(BoxNodes[k], BoxNodes[k + 1])
    /\ Len(Drawn) = Len(edges)
    /\ \A k \in 1..Len(Drawn) :
         /\ Drawn[k].tail = edges[k].src
         /\ Drawn[k].head = edges[k].dst
         /\ Drawn[k].label = Some(edges[k].iface)
    /\ \A i \in BoxNodeAt, j \in DrawnAt : i < j

\* two rows that give the same source and destination: two drawn connections
C8_Witness ==
  /\ pc = "write"
  /\ Len(edges) = 2
  /\ edges[1].src = edges[2].src /\ edges[1].dst = edges[2].dst
  /\ Len(Drawn) = 2
  /\ Len(BoxNodes) = 2

\* s contains sub, letters compared without case
HasFolded(s, sub) ==
  \E i \in 0..(Len(s) - Len(sub)) : \A j \in 1..Len(sub) : SameLetter(s[i + j], sub[j])

ExpectedColor(inttype) ==
  IF inttype = None THEN "default"
  ELSE IF HasFolded(inttype[1], <<"f", "i", "l", "e">>) THEN "red"
  ELSE IF HasFolded(inttype[1], <<"w", "e", "b", "s", "e", "r", "v", "i", "c", "e">>) \/ HasFolded(inttype[1], <<"w", "e", "b", " ", "s", "e", "r", "v", "i", "c", "e">>)
       THEN "blue"
  ELSE "default"

ColorOf(attrs) ==
  IF <<"color", "red">> \in attrs /\ <<"fontcolor", "red">> \in attrs THEN "red"
  ELSE IF <<"color", "blue">> \in attrs /\ <<"fontcolor", "blue">> \in attrs THEN "blue"
  ELSE IF \A a \in attrs : a[1] \notin {"color", "fontcolor"} THEN "default"
  ELSE "mixed"

\* C9: a connection is red when its interface type contains "file", else blue
\* when it contains "webservice" or "web service", compared without case, else
\* has no explicit color: "File Transfer" red, "WebService" and "Web Service"
\* blue, "Message Queue" default.
C9_ColorByInterfaceType ==
  (Built /\ Len(Drawn) = Len(edges)) =>
    \A k \in 1..Len(edges) :
      /\ ColorOf(Drawn[k].attrs) = ExpectedColor(edges[k].inttype)
      /\ edges[k].inttype = Some(<<"F", "i", "l", "e", " ", "T", "r", "a", "n", "s", "f", "e", "r">>) => ColorOf(Drawn[k].attrs) = "red"
      /\ edges[k].inttype = Some(<<"W", "e", "b", "S", "e", "r", "v", "i", "c", "e">>) => ColorOf(Drawn[k].attrs) = "blue"
      /\ edges[k].inttype = Some(<<"W", "e", "b", " ", "S", "e", "r", "v", "i", "c", "e">>) => ColorOf(Drawn[k].attrs) = "blue"
      /\ edges[k].inttype = Some(<<"M", "e", "s", "s", "a", "g", "e", " ", "Q", "u", "e", "u", "e">>) => ColorOf(Drawn[k].attrs) = "default"

\* a type that contains both "webservice" and "file" is red
C9_Witness ==
  /\ pc = "write"
  /\ Len(edges) = 1 /\ Len(Drawn) = 1
  /\ edges[1].inttype = Some(<<"W", "e", "b", "S", "e", "r", "v", "i", "c", "e", "f", "i", "l", "e">>)
  /\ ColorOf(Drawn[1].attrs) = "red"

\* C10: the legend is a node of its own: its identifier differs from every
\* edge source and destination, and the invisible anchor link joins it to
\* another node, never to itself.
C10_LegendIsSeparateNode ==
  Built =>
    /\ LEGEND \notin Endpoints
    /\ \A i \in 1..Len(dot) :
         (dot[i].stmt = "edge" /\ <<"style", "invis">> \in dot[i].attrs) =>
           dot[i].head # dot[i].tail

=============================================================================
